---------------------------- MODULE Spec2Model ----------------------------
(***************************************************************************)
(* Model of src/server.js: an Express server over two MongoDB collections  *)
(* (users, chats) reached through Mongoose.  Every route handler is one    *)
(* action, except the two handlers that read the store, await, and then    *)
(* write it (register, post message): these are split at the await so that *)
(* other requests interleave between the read and the write.               *)
(*                                                                         *)
(* Strings on which the code computes (messages, titles, passwords,        *)
(* addresses, response texts) are sequences of UTF-16 code units, as in    *)
(* JavaScript.  Strings that are only compared (names, emails, language    *)
(* tags, error texts) are TLA+ strings.  An optional JSON value is a set   *)
(* with at most one element: {} is undefined, {v} is the value v.          *)
(***************************************************************************)
EXTENDS Integers, Sequences, FiniteSets, TLC

VARIABLES users, chats, nextChatId, pending, last, now, registered

vars == <<users, chats, nextChatId, pending, last, now, registered>>

-----------------------------------------------------------------------------
(* JavaScript string primitives.                                           *)

Min(a, b) == IF a < b THEN a ELSE b

\* String.prototype.toLowerCase on one code unit (ASCII and Latin-1 capitals).
LowerUnit(c) ==
    IF c \in 65..90 THEN c + 32
    ELSE IF c \in 192..222 /\ c # 215 THEN c + 32
    ELSE c

toLowerCase(s) == [i \in 1..Len(s) |-> LowerUnit(s[i])]

\* String.prototype.includes
includes(s, sub) ==
    \E i \in 0..(Len(s) - Len(sub)) : \A j \in 1..Len(sub) : s[i + j] = sub[j]

\* the code units String.prototype.trim strips
WhiteSpace == {9, 10, 11, 12, 13, 32, 160, 5760, 8232, 8233, 8239, 8287, 12288, 65279}
    \cup (8192..8202)

RECURSIVE FirstKept(_, _)
FirstKept(s, i) ==
    IF i > Len(s) \/ s[i] \notin WhiteSpace THEN i ELSE FirstKept(s, i + 1)

RECURSIVE LastKept(_, _)
LastKept(s, i) ==
    IF i < 1 \/ s[i] \notin WhiteSpace THEN i ELSE LastKept(s, i - 1)

\* String.prototype.trim
trim(s) == SubSeq(s, FirstKept(s, 1), LastKept(s, Len(s)))

\* s.substring(0, n)
substring0(s, n) == SubSeq(s, 1, Min(n, Len(s)))

\* RegExp /[lo-hi]/.test(text)
testRange(text, lo, hi) == \E i \in 1..Len(text) : text[i] >= lo /\ text[i] <= hi

\* String(n) for an integer n
RECURSIVE Digits(_)
Digits(n) == IF n < 10 THEN <<48 + n>> ELSE Digits(n \div 10) \o <<48 + (n % 10)>>

NumberToString(n) == IF n < 0 THEN <<45>> \o Digits(0 - n) ELSE Digits(n)

\* A JSON value of a request body that the code treats as text: a string, or
\* a number (which has no trim method).  A missing field is the empty string.
Text(s) == [type |-> "string", text |-> s, number |-> 0]
Number(n) == [type |-> "number", text |-> <<>>, number |-> n]

\* !x for such a value, for a string and for an optional number (undefined, 0
\* and "" are falsy)
Falsy(v) == IF v.type = "string" THEN v.text = <<>> ELSE v.number = 0
FalsyString(s) == s = <<>>
FalsyName(s) == s = ""
FalsyNumber(m) == m = {} \/ m = {0}

-----------------------------------------------------------------------------
(* String literals of the source, as UTF-16 code units.                    *)

\* "New Chat"
NewChatTitle == <<78, 101, 119, 32, 67, 104, 97, 116>>

\* "..."
Ellipsis == <<46, 46, 46>>

\* "cheesecake"
KwCheesecake == <<99, 104, 101, 101, 115, 101, 99, 97, 107, 101>>

\* "dessert"
KwDessert == <<100, 101, 115, 115, 101, 114, 116>>

\* "deal"
KwDeal == <<100, 101, 97, 108>>

\* "offer"
KwOffer == <<111, 102, 102, 101, 114>>

\* "discount"
KwDiscount == <<100, 105, 115, 99, 111, 117, 110, 116>>

\* "restaurant"
KwRestaurant == <<114, 101, 115, 116, 97, 117, 114, 97, 110, 116>>

\* "food"
KwFood == <<102, 111, 111, 100>>

\* "eat"
KwEat == <<101, 97, 116>>

\* ", "
CommaSpace == <<44, 32>>

\* "$2a$10$"
BcryptPrefix == <<36, 50, 97, 36, 49, 48, 36>>

\* 327 UTF-16 code units
BakeryContent ==
    <<73, 32, 102, 111, 117, 110, 100, 32, 115, 101, 118, 101, 114, 97, 108, 32, 103, 114,
      101, 97, 116, 32, 112, 108, 97, 99, 101, 115, 32, 102, 111, 114, 32, 99, 104, 101, 101,
      115, 101, 99, 97, 107, 101, 32, 110, 101, 97, 114, 32, 121, 111, 117, 33, 32, 72, 101,
      114, 101, 32, 97, 114, 101, 32, 116, 104, 101, 32, 116, 111, 112, 32, 114, 101, 99, 111,
      109, 109, 101, 110, 100, 97, 116, 105, 111, 110, 115, 58, 10, 10, 55356, 57200, 32, 42,
      42, 83, 119, 101, 101, 116, 32, 68, 114, 101, 97, 109, 115, 32, 66, 97, 107, 101, 114,
      121, 42, 42, 32, 45, 32, 50, 46, 51, 32, 109, 105, 108, 101, 115, 32, 97, 119, 97, 121,
      10, 45, 32, 70, 114, 101, 115, 104, 32, 78, 101, 119, 32, 89, 111, 114, 107, 32, 115,
      116, 121, 108, 101, 32, 99, 104, 101, 101, 115, 101, 99, 97, 107, 101, 10, 45, 32, 82,
      97, 116, 105, 110, 103, 58, 32, 52, 46, 56, 47, 53, 10, 45, 32, 83, 112, 101, 99, 105,
      97, 108, 32, 111, 102, 102, 101, 114, 58, 32, 50, 48, 37, 32, 111, 102, 102, 32, 116,
      111, 100, 97, 121, 33, 10, 10, 55356, 57200, 32, 42, 42, 67, 97, 102, 101, 32, 68, 101,
      108, 105, 103, 104, 116, 42, 42, 32, 45, 32, 49, 46, 56, 32, 109, 105, 108, 101, 115,
      32, 97, 119, 97, 121, 10, 45, 32, 65, 114, 116, 105, 115, 97, 110, 97, 108, 32, 99, 104,
      101, 101, 115, 101, 99, 97, 107, 101, 115, 10, 45, 32, 82, 97, 116, 105, 110, 103, 58,
      32, 52, 46, 54, 47, 53, 10, 45, 32, 70, 114, 101, 101, 32, 100, 101, 108, 105, 118, 101,
      114, 121, 32, 111, 110, 32, 111, 114, 100, 101, 114, 115, 32, 111, 118, 101, 114, 32,
      36, 50, 53>>

\* 277 UTF-16 code units
DealsContent ==
    <<72, 101, 114, 101, 32, 97, 114, 101, 32, 116, 104, 101, 32, 98, 101, 115, 116, 32, 100,
      101, 97, 108, 115, 32, 97, 118, 97, 105, 108, 97, 98, 108, 101, 32, 114, 105, 103, 104,
      116, 32, 110, 111, 119, 58, 10, 10, 55357, 56496, 32, 42, 42, 70, 108, 97, 115, 104, 32,
      83, 97, 108, 101, 32, 65, 108, 101, 114, 116, 33, 42, 42, 10, 45, 32, 53, 48, 37, 32,
      111, 102, 102, 32, 101, 108, 101, 99, 116, 114, 111, 110, 105, 99, 115, 32, 97, 116, 32,
      84, 101, 99, 104, 83, 116, 111, 114, 101, 10, 45, 32, 66, 117, 121, 32, 50, 32, 103,
      101, 116, 32, 49, 32, 102, 114, 101, 101, 32, 97, 116, 32, 70, 97, 115, 104, 105, 111,
      110, 32, 72, 117, 98, 10, 45, 32, 70, 114, 101, 101, 32, 115, 104, 105, 112, 112, 105,
      110, 103, 32, 111, 110, 32, 111, 114, 100, 101, 114, 115, 32, 111, 118, 101, 114, 32,
      36, 53, 48, 10, 10, 55357, 56613, 32, 42, 42, 76, 105, 109, 105, 116, 101, 100, 32, 84,
      105, 109, 101, 32, 79, 102, 102, 101, 114, 115, 58, 42, 42, 10, 45, 32, 51, 48, 37, 32,
      111, 102, 102, 32, 114, 101, 115, 116, 97, 117, 114, 97, 110, 116, 32, 109, 101, 97,
      108, 115, 32, 118, 105, 97, 32, 70, 111, 111, 100, 65, 112, 112, 10, 45, 32, 50, 53, 37,
      32, 99, 97, 115, 104, 98, 97, 99, 107, 32, 111, 110, 32, 103, 114, 111, 99, 101, 114,
      121, 32, 115, 104, 111, 112, 112, 105, 110, 103>>

\* 244 UTF-16 code units
RestaurantContent ==
    <<73, 32, 102, 111, 117, 110, 100, 32, 115, 111, 109, 101, 32, 97, 109, 97, 122, 105, 110,
      103, 32, 114, 101, 115, 116, 97, 117, 114, 97, 110, 116, 115, 32, 110, 101, 97, 114, 32,
      121, 111, 117, 58, 10, 10, 55356, 57173, 32, 42, 42, 80, 105, 122, 122, 97, 32, 80, 97,
      108, 97, 99, 101, 42, 42, 32, 45, 32, 49, 46, 50, 32, 109, 105, 108, 101, 115, 10, 45,
      32, 65, 117, 116, 104, 101, 110, 116, 105, 99, 32, 73, 116, 97, 108, 105, 97, 110, 32,
      112, 105, 122, 122, 97, 10, 45, 32, 82, 97, 116, 105, 110, 103, 58, 32, 52, 46, 55, 47,
      53, 10, 45, 32, 49, 53, 37, 32, 111, 102, 102, 32, 102, 111, 114, 32, 110, 101, 119, 32,
      99, 117, 115, 116, 111, 109, 101, 114, 115, 10, 10, 55356, 57187, 32, 42, 42, 83, 117,
      115, 104, 105, 32, 90, 101, 110, 42, 42, 32, 45, 32, 50, 46, 49, 32, 109, 105, 108, 101,
      115, 10, 45, 32, 70, 114, 101, 115, 104, 32, 115, 117, 115, 104, 105, 32, 97, 110, 100,
      32, 115, 97, 115, 104, 105, 109, 105, 10, 45, 32, 82, 97, 116, 105, 110, 103, 58, 32,
      52, 46, 57, 47, 53, 10, 45, 32, 72, 97, 112, 112, 121, 32, 104, 111, 117, 114, 58, 32,
      51, 45, 54, 32, 80, 77, 32, 100, 97, 105, 108, 121>>

\* 327 UTF-16 code units
HelpContent ==
    <<73, 39, 109, 32, 104, 101, 114, 101, 32, 116, 111, 32, 104, 101, 108, 112, 32, 121, 111,
      117, 32, 102, 105, 110, 100, 32, 116, 104, 101, 32, 98, 101, 115, 116, 32, 100, 101, 97,
      108, 115, 44, 32, 114, 101, 99, 111, 109, 109, 101, 110, 100, 97, 116, 105, 111, 110,
      115, 44, 32, 97, 110, 100, 32, 108, 111, 99, 97, 108, 32, 98, 117, 115, 105, 110, 101,
      115, 115, 101, 115, 33, 32, 89, 111, 117, 32, 99, 97, 110, 32, 97, 115, 107, 32, 109,
      101, 32, 97, 98, 111, 117, 116, 58, 10, 10, 8226, 32, 70, 105, 110, 100, 105, 110, 103,
      32, 110, 101, 97, 114, 98, 121, 32, 114, 101, 115, 116, 97, 117, 114, 97, 110, 116, 115,
      44, 32, 115, 104, 111, 112, 115, 44, 32, 111, 114, 32, 115, 101, 114, 118, 105, 99, 101,
      115, 10, 8226, 32, 71, 101, 116, 116, 105, 110, 103, 32, 116, 104, 101, 32, 108, 97,
      116, 101, 115, 116, 32, 100, 101, 97, 108, 115, 32, 97, 110, 100, 32, 111, 102, 102,
      101, 114, 115, 10, 8226, 32, 80, 101, 114, 115, 111, 110, 97, 108, 105, 122, 101, 100,
      32, 114, 101, 99, 111, 109, 109, 101, 110, 100, 97, 116, 105, 111, 110, 115, 32, 98, 97,
      115, 101, 100, 32, 111, 110, 32, 121, 111, 117, 114, 32, 112, 114, 101, 102, 101, 114,
      101, 110, 99, 101, 115, 10, 8226, 32, 76, 111, 99, 97, 108, 32, 98, 117, 115, 105, 110,
      101, 115, 115, 32, 105, 110, 102, 111, 114, 109, 97, 116, 105, 111, 110, 32, 97, 110,
      100, 32, 114, 101, 118, 105, 101, 119, 115, 10, 10, 87, 104, 97, 116, 32, 119, 111, 117,
      108, 100, 32, 121, 111, 117, 32, 108, 105, 107, 101, 32, 116, 111, 32, 101, 120, 112,
      108, 111, 114, 101, 32, 116, 111, 100, 97, 121, 63>>

-----------------------------------------------------------------------------
(* Pure functions of the source.                                           *)

\* characters of the first user message kept in a derived title
TitleLength == 50

\* shortest password the register route accepts
MinPasswordLength == 6

\* detectLanguage with the Arabic test moved in front of the Bengali test
detectLanguageArabicFirst(text) ==
    IF testRange(text, 1536, 1791) THEN "ar"
    ELSE IF testRange(text, 2432, 2559) THEN "bn"
    ELSE IF testRange(text, 19968, 40959) THEN "zh"
    ELSE "en"

\* detectLanguage: the three script tests, in the order of the source.
\* /[\u0980-\u09FF]/ is 2432..2559, /[\u0600-\u06FF]/ is 1536..1791,
\* /[\u4e00-\u9fff]/ is 19968..40959.
detectLanguage(text) ==
    IF testRange(text, 2432, 2559) THEN "bn"
    ELSE IF testRange(text, 1536, 1791) THEN "ar"
    ELSE IF testRange(text, 19968, 40959) THEN "zh"
    ELSE "en"

\* The recommendation lists (ratings are kept as their decimal text).
BakeryRecommendations ==
    << [name |-> "Sweet Dreams Bakery", distance |-> "2.3 miles", rating |-> "4.8",
        offer |-> "20% off today"],
       [name |-> "Cafe Delight", distance |-> "1.8 miles", rating |-> "4.6",
        offer |-> "Free delivery over $25"] >>

DealsRecommendations ==
    << [name |-> "TechStore", offer |-> "50% off electronics", expires |-> "24 hours"],
       [name |-> "Fashion Hub", offer |-> "Buy 2 get 1 free", expires |-> "48 hours"],
       [name |-> "FoodApp", offer |-> "30% off meals", expires |-> "This week"] >>

RestaurantRecommendations ==
    << [name |-> "Pizza Palace", cuisine |-> "Italian", distance |-> "1.2 miles",
        rating |-> "4.7"],
       [name |-> "Sushi Zen", cuisine |-> "Japanese", distance |-> "2.1 miles",
        rating |-> "4.9"] >>

\* generateAIResponse with the deals rule tested before the bakery rule
generateAIResponseDealsFirst(message) ==
    LET lowerMessage == toLowerCase(message)
    IN  IF includes(lowerMessage, KwDeal) \/ includes(lowerMessage, KwOffer)
                \/ includes(lowerMessage, KwDiscount)
        THEN [content |-> DealsContent, recommendations |-> DealsRecommendations]
        ELSE IF includes(lowerMessage, KwCheesecake) \/ includes(lowerMessage, KwDessert)
        THEN [content |-> BakeryContent, recommendations |-> BakeryRecommendations]
        ELSE IF includes(lowerMessage, KwRestaurant) \/ includes(lowerMessage, KwFood)
                    \/ includes(lowerMessage, KwEat)
        THEN [content |-> RestaurantContent, recommendations |-> RestaurantRecommendations]
        ELSE [content |-> HelpContent, recommendations |-> <<>>]

\* generateAIResponse(message, language): the language argument is not read.
generateAIResponse(message) ==
    LET lowerMessage == toLowerCase(message)
    IN  IF includes(lowerMessage, KwCheesecake) \/ includes(lowerMessage, KwDessert)
        THEN [content |-> BakeryContent, recommendations |-> BakeryRecommendations]
        ELSE IF includes(lowerMessage, KwDeal) \/ includes(lowerMessage, KwOffer)
                    \/ includes(lowerMessage, KwDiscount)
        THEN [content |-> DealsContent, recommendations |-> DealsRecommendations]
        ELSE IF includes(lowerMessage, KwRestaurant) \/ includes(lowerMessage, KwFood)
                    \/ includes(lowerMessage, KwEat)
        THEN [content |-> RestaurantContent, recommendations |-> RestaurantRecommendations]
        ELSE [content |-> HelpContent, recommendations |-> <<>>]

\* message.substring(0, 50) + (message.length > 50 ? '...' : '')
DeriveTitle(message) ==
    substring0(message, TitleLength)
        \o (IF Len(message) > TitleLength THEN Ellipsis ELSE <<>>)

\* `${latitude}, ${longitude}`
LatLonText(latitude, longitude) ==
    NumberToString(latitude) \o CommaSpace \o NumberToString(longitude)

-----------------------------------------------------------------------------
(* Libraries: bcryptjs, jsonwebtoken, validator.                           *)

\* bcrypt.hash(password, salt): the "$2a$10$" header, the salt, and a digest
\* that depends on every unit of the password and on the salt.
bcryptDigest(password, salt) ==
    [i \in 1..Len(password) |-> (password[i] + salt + i) % 128]

bcryptHash(password, salt) == BcryptPrefix \o <<salt>> \o bcryptDigest(password, salt)

\* a comparison of the request's password with the stored value itself
bcryptComparePlain(password, hash) == password = hash

\* bcrypt.compare(password, hash): hash again under the salt kept in the hash.
bcryptCompare(password, hash) ==
    /\ Len(hash) > Len(BcryptPrefix)
    /\ SubSeq(hash, 1, Len(BcryptPrefix)) = BcryptPrefix
    /\ bcryptHash(password, hash[Len(BcryptPrefix) + 1]) = hash

\* jwt.sign({ userId }, secret, { expiresIn: '7d' })
jwtSign(userId) == [form |-> "jwt", userId |-> userId, signed |-> TRUE, expired |-> FALSE]

\* a verification that does not look at the expiry
jwtVerifyIgnoreExpiration(token) == token.form = "jwt" /\ token.signed

\* jwt.verify(token, secret): throws unless well formed, signed with the
\* secret, and inside its seven days.
jwtVerify(token) == token.form = "jwt" /\ token.signed /\ ~token.expired

\* validator.isEmail
ValidEmails == {"ann@x.io", "bob@x.io"}

isEmail(email) == email \in ValidEmails

-----------------------------------------------------------------------------
(* The request inputs the model draws from.                                *)

\* "Sweet Dreams Bakery"
SweetDreamsBakery ==
    <<83, 119, 101, 101, 116, 32, 68, 114, 101, 97, 109, 115, 32, 66, 97, 107, 101, 114, 121>>

\* "I want cheesecake"
MsgCheesecake ==
    <<73, 32, 119, 97, 110, 116, 32, 99, 104, 101, 101, 115, 101, 99, 97, 107, 101>>

\* "DESSERT deal"
MsgDessertDeal == <<68, 69, 83, 83, 69, 82, 84, 32, 100, 101, 97, 108>>

\* "Any Offer on food?"
MsgOfferFood ==
    <<65, 110, 121, 32, 79, 102, 102, 101, 114, 32, 111, 110, 32, 102, 111, 111, 100, 63>>

\* "Great"
MsgGreat == <<71, 114, 101, 97, 116>>

\* "big DISCOUNT"
MsgDiscount == <<98, 105, 103, 32, 68, 73, 83, 67, 79, 85, 78, 84>>

\* "a restaurant"
MsgRestaurant == <<97, 32, 114, 101, 115, 116, 97, 117, 114, 97, 110, 116>>

\* "hello"
MsgHello == <<104, 101, 108, 108, 111>>

\* three Arabic letters (U+0622 U+0633 U+0641)
MsgArabic == <<1570, 1587, 1601>>

\* two CJK ideographs (U+4F60 U+597D)
MsgChinese == <<20320, 22909>>

\* three Bengali letters (U+0986 U+09AE U+09BF)
MsgBengali == <<2438, 2478, 2495>>

\* an Arabic letter, a space, a Bengali letter
MsgArabicBengali == <<1570, 32, 2438>>

\* a CJK ideograph, a space, an Arabic letter
MsgChineseArabic == <<20320, 32, 1570>>

\* a CJK ideograph, a Bengali letter
MsgChineseBengali == <<22909, 2438>>

\* "Where can I find a discount on dessert around here?" (51 code units)
MsgLong ==
    <<87, 104, 101, 114, 101, 32, 99, 97, 110, 32, 73, 32, 102, 105, 110, 100, 32, 97, 32,
      100, 105, 115, 99, 111, 117, 110, 116, 32, 111, 110, 32, 100, 101, 115, 115, 101, 114,
      116, 32, 97, 114, 111, 117, 110, 100, 32, 104, 101, 114, 101, 63>>

\* "xxxxxxxxxxxxxxxxxxxxxxxxxxxxxxxxxxxxxxxxxxxxxxxxxx" (50 code units)
MsgFifty ==
    <<120, 120, 120, 120, 120, 120, 120, 120, 120, 120, 120, 120, 120, 120, 120, 120, 120,
      120, 120, 120, 120, 120, 120, 120, 120, 120, 120, 120, 120, 120, 120, 120, 120, 120,
      120, 120, 120, 120, 120, 120, 120, 120, 120, 120, 120, 120, 120, 120, 120, 120>>

\* "   "
MsgBlank == <<32, 32, 32>>

\* "  eat out "
MsgPadded == <<32, 32, 101, 97, 116, 32, 111, 117, 116, 32>>

\* "hi"
MsgHi == <<104, 105>>

\* " Trip "
TitleTrip == <<32, 84, 114, 105, 112, 32>>

\* a space and a tab
TitleBlank == <<32, 9>>

\* "secret"
PwSecret == <<115, 101, 99, 114, 101, 116>>

\* "hunter22"
PwHunter == <<104, 117, 110, 116, 101, 114, 50, 50>>

\* "12345"
PwShort == <<49, 50, 51, 52, 53>>

\* "Home"
AddrHome == <<72, 111, 109, 101>>
-----------------------------------------------------------------------------
(* The stored documents.                                                   *)

\* UserSchema.location with no field set (also the result of $unset)
NoLocation == [latitude |-> {}, longitude |-> {}, address |-> {}, lastUpdated |-> {}]

\* new User({ name, email, password }) with the schema defaults
NewUser(id, name, email, password, createdAt) ==
    [_id |-> id, name |-> name, email |-> email, password |-> password,
     preferredLanguage |-> "en", location |-> NoLocation, createdAt |-> createdAt]

\* new Chat({ userId, title: 'New Chat', messages: [] })
NewChat(id, userId, createdAt) ==
    [_id |-> id, userId |-> userId, title |-> NewChatTitle, messages |-> <<>>,
     createdAt |-> createdAt, updatedAt |-> createdAt]

\* a query without the select
SelectAll(doc) == doc

\* Query.select('-password')
SelectWithoutPassword(doc) == [f \in DOMAIN doc \ {"password"} |-> doc[f]]

\* Query.select('title createdAt updatedAt')
SelectSummary(doc) == [f \in {"_id", "title", "createdAt", "updatedAt"} |-> doc[f]]

\* User.findById(id): the set holding the document, or {} for null
FindUserById(id) == IF id \in 1..Len(users) THEN {users[id]} ELSE {}

\* User.findOne({ email }): the matching documents; the unique index on
\* email keeps them to at most one
FindUsersByEmail(email) == {users[i] : i \in {j \in 1..Len(users) : users[j].email = email}}

\* a chat query that leaves the owner out of the filter
FindChatById(chatId, userId) == IF chatId \in DOMAIN chats THEN {chats[chatId]} ELSE {}

\* Chat.findOne({ _id: chatId, userId }): the set holding the document, or {}
FindOwnedChat(chatId, userId) ==
    IF chatId \in DOMAIN chats /\ chats[chatId].userId = userId
    THEN {chats[chatId]} ELSE {}

\* the { id, name, email, preferredLanguage } object of the auth responses
PublicUser(user) ==
    [id |-> user._id, name |-> user.name, email |-> user.email,
     preferredLanguage |-> user.preferredLanguage]

-----------------------------------------------------------------------------
(* Requests and responses.  last is the request handled by the latest step *)
(* and the response it sent; status 0 stands for a request that has read   *)
(* the store and not answered yet.                                         *)

NoBody == [none |-> TRUE]

NoToken == [form |-> "none", userId |-> 0, signed |-> FALSE, expired |-> FALSE]

Exchange(route, token, chatId, input, status, body, ran) ==
    [route |-> route, token |-> token, chatId |-> chatId, input |-> input,
     status |-> status, body |-> body, ran |-> ran]

Error(text) == [error |-> text]

\* authMiddleware: 401 unless the header carries a token that verifies and
\* names a stored user; then req.user is that user without the password.
authMiddleware(token) ==
    IF token.form = "none"
    THEN [ok |-> FALSE, status |-> 401, body |-> Error("Access denied"), user |-> NoBody]
    ELSE IF ~jwtVerify(token)
    THEN [ok |-> FALSE, status |-> 401, body |-> Error("Token is not valid"), user |-> NoBody]
    ELSE IF FindUserById(token.userId) = {}
    THEN [ok |-> FALSE, status |-> 401, body |-> Error("Token is not valid"), user |-> NoBody]
    ELSE [ok |-> TRUE, status |-> 0, body |-> NoBody,
          user |-> SelectWithoutPassword(CHOOSE u \in FindUserById(token.userId) : TRUE)]

\* the response of a protected route whose middleware did not call next()
Rejected(route, token, chatId, input) ==
    LET a == authMiddleware(token)
    IN  /\ last' = Exchange(route, token, chatId, input, a.status, a.body, FALSE)
        /\ UNCHANGED <<users, chats, nextChatId, pending, now, registered>>

ServerError == Error("Server error")

Init ==
    /\ users = <<>>
    /\ chats = <<>>
    /\ nextChatId = 1
    /\ pending = <<>>
    /\ last = Exchange("health", NoToken, 0, NoBody, 200, [message |-> "Server is running!"], TRUE)
    /\ now = 0
    /\ registered = {}

Remove(seq, i) == SubSeq(seq, 1, i - 1) \o SubSeq(seq, i + 1, Len(seq))

-----------------------------------------------------------------------------
(* POST /api/auth/register, up to the await of User.findOne.               *)
Register(body) ==
    LET reply(status, text) ==
            /\ last' = Exchange("register", NoToken, 0, body, status, Error(text), TRUE)
            /\ UNCHANGED pending
    IN  /\ IF FalsyName(body.name) \/ FalsyName(body.email) \/ FalsyString(body.password)
           THEN reply(400, "Please provide all required fields")
           ELSE IF ~isEmail(body.email)
           THEN reply(400, "Please provide a valid email")
           ELSE IF Len(body.password) < MinPasswordLength
           THEN reply(400, "Password must be at least 6 characters")
           ELSE IF FindUsersByEmail(body.email) # {}
           THEN reply(400, "User already exists")
           ELSE /\ pending' = Append(pending, [kind |-> "register", body |-> body])
                /\ last' = Exchange("register", NoToken, 0, body, 0, NoBody, TRUE)
        /\ UNCHANGED <<users, chats, nextChatId, now, registered>>

\* POST /api/auth/register, from bcrypt.genSalt to the response.  user.save()
\* inserts; the unique index on email rejects a second document with the
\* same email (E11000), which the catch turns into 500.
RegisterSave(i, salt) ==
    /\ i \in 1..Len(pending)
    /\ pending[i].kind = "register"
    /\ LET body == pending[i].body
           hashedPassword == bcryptHash(body.password, salt)
           user == NewUser(Len(users) + 1, body.name, body.email, hashedPassword, now)
       IN  IF FindUsersByEmail(body.email) # {}
           THEN /\ last' = Exchange("register", NoToken, 0, body, 500, ServerError, TRUE)
                /\ UNCHANGED <<users, registered>>
           ELSE /\ users' = Append(users, user)
                /\ last' = Exchange("register", NoToken, 0, body, 201,
                                    [token |-> jwtSign(user._id), user |-> PublicUser(user)],
                                    TRUE)
                /\ registered' = registered \cup
                       {[email |-> body.email, password |-> body.password, id |-> user._id]}
    /\ pending' = Remove(pending, i)
    /\ UNCHANGED <<chats, nextChatId, now>>

\* POST /api/auth/login: the response to a login request in the current state
LoginResponse(body) ==
    IF FalsyName(body.email) \/ FalsyString(body.password)
    THEN [status |-> 400, body |-> Error("Please provide email and password")]
    ELSE IF FindUsersByEmail(body.email) = {}
    THEN [status |-> 400, body |-> Error("Invalid credentials")]
    ELSE LET user == CHOOSE u \in FindUsersByEmail(body.email) : TRUE
         IN  IF ~bcryptCompare(body.password, user.password)
             THEN [status |-> 400, body |-> Error("Invalid credentials")]
             ELSE [status |-> 200,
                   body |-> [token |-> jwtSign(user._id), user |-> PublicUser(user)]]

Login(body) ==
    /\ last' = Exchange("login", NoToken, 0, body, LoginResponse(body).status,
                        LoginResponse(body).body, TRUE)
    /\ UNCHANGED <<users, chats, nextChatId, pending, now, registered>>

\* GET /api/health
Health ==
    /\ last' = Exchange("health", NoToken, 0, NoBody, 200, [message |-> "Server is running!"], TRUE)
    /\ UNCHANGED <<users, chats, nextChatId, pending, now, registered>>

\* time passes
Tick ==
    /\ now' = now + 1
    /\ UNCHANGED <<users, chats, nextChatId, pending, last, registered>>

-----------------------------------------------------------------------------
(* Chat routes.  A chatId of 0 stands for a path parameter that is not an  *)
(* ObjectId: the query throws a CastError, which the catch turns into 500. *)

BadObjectId == 0

\* the orders in which .sort({ updatedAt: -1 }) can return the chats in ids
SortedByUpdatedAt(ids) ==
    {s \in [1..Cardinality(ids) -> ids] :
        /\ \A i, j \in 1..Cardinality(ids) : i # j => s[i] # s[j]
        /\ \A i, j \in 1..Cardinality(ids) :
               i < j => chats[s[i]].updatedAt >= chats[s[j]].updatedAt}

\* GET /api/chats
ListChats(token) ==
    LET a == authMiddleware(token)
    IN  IF ~a.ok THEN Rejected("listChats", token, 0, NoBody)
        ELSE /\ \E s \in SortedByUpdatedAt({c \in DOMAIN chats : chats[c].userId = a.user._id}) :
                    last' = Exchange("listChats", token, 0, NoBody, 200,
                                     [i \in DOMAIN s |-> SelectSummary(chats[s[i]])], TRUE)
             /\ UNCHANGED <<users, chats, nextChatId, pending, now, registered>>

\* POST /api/chats
CreateChat(token) ==
    LET a == authMiddleware(token)
        chat == NewChat(nextChatId, a.user._id, now)
    IN  IF ~a.ok THEN Rejected("createChat", token, 0, NoBody)
        ELSE /\ chats' = chats @@ (nextChatId :> chat)
             /\ last' = Exchange("createChat", token, 0, NoBody, 201, chat, TRUE)
             /\ nextChatId' = nextChatId + 1
             /\ UNCHANGED <<users, pending, now, registered>>

\* GET /api/chats/:chatId
GetChat(token, chatId) ==
    LET a == authMiddleware(token)
        reply(status, body) ==
            last' = Exchange("getChat", token, chatId, NoBody, status, body, TRUE)
    IN  IF ~a.ok THEN Rejected("getChat", token, chatId, NoBody)
        ELSE /\ IF chatId = BadObjectId THEN reply(500, ServerError)
                ELSE IF FindOwnedChat(chatId, a.user._id) = {}
                THEN reply(404, Error("Chat not found"))
                ELSE reply(200, CHOOSE c \in FindOwnedChat(chatId, a.user._id) : TRUE)
             /\ UNCHANGED <<users, chats, nextChatId, pending, now, registered>>

\* POST /api/chats/:chatId/messages, up to the await of Chat.findOne
PostMessage(token, chatId, message) ==
    LET a == authMiddleware(token)
        input == [message |-> message]
        reply(status, body) ==
            /\ last' = Exchange("postMessage", token, chatId, input, status, body, TRUE)
            /\ UNCHANGED pending
    IN  IF ~a.ok THEN Rejected("postMessage", token, chatId, input)
        ELSE /\ IF Falsy(message) THEN reply(400, Error("Message is required"))
                ELSE IF message.type # "string" THEN reply(500, ServerError)
                ELSE IF FalsyString(trim(message.text))
                THEN reply(400, Error("Message is required"))
                ELSE IF chatId = BadObjectId THEN reply(500, ServerError)
                ELSE IF FindOwnedChat(chatId, a.user._id) = {}
                THEN reply(404, Error("Chat not found"))
                ELSE /\ pending' = Append(pending,
                            [kind |-> "postMessage", token |-> token, chatId |-> chatId,
                             message |-> message,
                             chat |-> CHOOSE c \in FindOwnedChat(chatId, a.user._id) : TRUE])
                     /\ last' = Exchange("postMessage", token, chatId, input, 0, NoBody, TRUE)
             /\ UNCHANGED <<users, chats, nextChatId, now, registered>>

\* the two messages one request pushes onto chat.messages
UserMessage(message, detectedLanguage, timestamp) ==
    [role |-> "user", content |-> trim(message), language |-> detectedLanguage,
     timestamp |-> timestamp]

AssistantMessage(aiResponse, detectedLanguage, timestamp) ==
    [role |-> "assistant", content |-> aiResponse.content, language |-> detectedLanguage,
     timestamp |-> timestamp]

\* the two pushes in the opposite order
PushedMessagesSwapped(message, timestamp) ==
    << AssistantMessage(generateAIResponse(message), detectLanguage(message), timestamp),
       UserMessage(message, detectLanguage(message), timestamp) >>

PushedMessages(message, timestamp) ==
    << UserMessage(message, detectLanguage(message), timestamp),
       AssistantMessage(generateAIResponse(message), detectLanguage(message), timestamp) >>

\* chat.save() of a loaded document sends the changes made to it: a $push of
\* the pushed messages onto the stored array, and a $set of each path
\* assigned a new value.
SavedMessages(stored, pushed) == stored \o pushed

\* the title the request assigns: only when its own copy now holds two messages
AssignsTitle(local) == Len(local.messages) = 2

SavedTitle(stored, loaded, local, message) ==
    IF AssignsTitle(local) /\ DeriveTitle(message) # loaded.title
    THEN DeriveTitle(message)
    ELSE stored.title

\* POST /api/chats/:chatId/messages, from detectLanguage to the response.  A
\* save of a document deleted in the meantime throws; the catch answers 500.
PostMessageSave(i) ==
    /\ i \in 1..Len(pending)
    /\ pending[i].kind = "postMessage"
    /\ LET p == pending[i]
           message == p.message.text
           pushed == PushedMessages(message, now)
           local == [p.chat EXCEPT !.messages = @ \o pushed]
           input == [message |-> p.message]
       IN  IF p.chatId \notin DOMAIN chats
           THEN /\ last' = Exchange("postMessage", p.token, p.chatId, input, 500,
                                    ServerError, TRUE)
                /\ UNCHANGED chats
           ELSE /\ chats' = [chats EXCEPT ![p.chatId] =
                        [@ EXCEPT !.messages = SavedMessages(@, pushed),
                                  !.title = SavedTitle(chats[p.chatId], p.chat, local, message),
                                  !.updatedAt = now]]
                /\ last' = Exchange("postMessage", p.token, p.chatId, input, 200,
                                    [userMessage |-> pushed[1], assistantMessage |-> pushed[2],
                                     recommendations |->
                                         generateAIResponse(message).recommendations],
                                    TRUE)
    /\ pending' = Remove(pending, i)
    /\ UNCHANGED <<users, nextChatId, now, registered>>

\* PUT /api/chats/:chatId/title
UpdateTitle(token, chatId, title) ==
    LET a == authMiddleware(token)
        input == [title |-> title]
        reply(status, body) ==
            last' = Exchange("updateTitle", token, chatId, input, status, body, TRUE)
    IN  IF ~a.ok THEN Rejected("updateTitle", token, chatId, input)
        ELSE /\ IF Falsy(title)
                THEN reply(400, Error("Title is required")) /\ UNCHANGED chats
                ELSE IF title.type # "string" THEN reply(500, ServerError) /\ UNCHANGED chats
                ELSE IF FalsyString(trim(title.text))
                THEN reply(400, Error("Title is required")) /\ UNCHANGED chats
                ELSE IF chatId = BadObjectId THEN reply(500, ServerError) /\ UNCHANGED chats
                ELSE IF FindOwnedChat(chatId, a.user._id) = {}
                THEN reply(404, Error("Chat not found")) /\ UNCHANGED chats
                ELSE /\ chats' = [chats EXCEPT ![chatId] =
                             [@ EXCEPT !.title = trim(title.text), !.updatedAt = now]]
                     /\ reply(200, [message |-> "Chat title updated successfully",
                                    chat |-> chats'[chatId]])
             /\ UNCHANGED <<users, nextChatId, pending, now, registered>>

\* DELETE /api/chats/:chatId
DeleteChat(token, chatId) ==
    LET a == authMiddleware(token)
        reply(status, body) ==
            last' = Exchange("deleteChat", token, chatId, NoBody, status, body, TRUE)
    IN  IF ~a.ok THEN Rejected("deleteChat", token, chatId, NoBody)
        ELSE /\ IF chatId = BadObjectId THEN reply(500, ServerError) /\ UNCHANGED chats
                ELSE IF FindOwnedChat(chatId, a.user._id) = {}
                THEN reply(404, Error("Chat not found")) /\ UNCHANGED chats
                ELSE /\ chats' = [c \in DOMAIN chats \ {chatId} |-> chats[c]]
                     /\ reply(200, [message |-> "Chat deleted successfully"])
             /\ UNCHANGED <<users, nextChatId, pending, now, registered>>

-----------------------------------------------------------------------------
(* User routes.                                                            *)

\* GET /api/user/profile
GetProfile(token) ==
    LET a == authMiddleware(token)
    IN  IF ~a.ok THEN Rejected("getProfile", token, 0, NoBody)
        ELSE /\ LET user == SelectWithoutPassword(CHOOSE u \in FindUserById(a.user._id) : TRUE)
                IN  last' = Exchange("getProfile", token, 0, NoBody, 200,
                                     [id |-> user._id, name |-> user.name, email |-> user.email,
                                      preferredLanguage |-> user.preferredLanguage,
                                      location |-> user.location, createdAt |-> user.createdAt],
                                     TRUE)
             /\ UNCHANGED <<users, chats, nextChatId, pending, now, registered>>

\* PUT /api/user/profile
UpdateProfile(token, body) ==
    LET a == authMiddleware(token)
    IN  IF ~a.ok THEN Rejected("updateProfile", token, 0, body)
        ELSE /\ users' = [users EXCEPT ![a.user._id] =
                     [@ EXCEPT !.name = body.name,
                               !.preferredLanguage = body.preferredLanguage]]
             /\ last' = Exchange("updateProfile", token, 0, body, 200,
                                 SelectWithoutPassword(users'[a.user._id]), TRUE)
             /\ UNCHANGED <<chats, nextChatId, pending, now, registered>>

\* address || `${latitude}, ${longitude}`
AddressOrDefault(address, latitude, longitude) ==
    IF address = {} \/ address = {<<>>}
    THEN LatLonText(latitude, longitude)
    ELSE CHOOSE s \in address : TRUE

\* POST /api/user/location
SetLocation(token, body) ==
    LET a == authMiddleware(token)
    IN  IF ~a.ok THEN Rejected("setLocation", token, 0, body)
        ELSE /\ IF FalsyNumber(body.latitude) \/ FalsyNumber(body.longitude)
                THEN /\ last' = Exchange("setLocation", token, 0, body, 400,
                                         Error("Latitude and longitude are required"), TRUE)
                     /\ UNCHANGED users
                ELSE LET latitude == CHOOSE n \in body.latitude : TRUE
                         longitude == CHOOSE n \in body.longitude : TRUE
                         location ==
                             [latitude |-> {latitude}, longitude |-> {longitude},
                              address |-> {AddressOrDefault(body.address, latitude, longitude)},
                              lastUpdated |-> {now}]
                     IN  /\ users' = [users EXCEPT ![a.user._id].location = location]
                         /\ last' = Exchange("setLocation", token, 0, body, 200,
                                             [message |-> "Location saved successfully",
                                              location |-> location], TRUE)
             /\ UNCHANGED <<chats, nextChatId, pending, now, registered>>

\* GET /api/user/location
GetLocation(token) ==
    LET a == authMiddleware(token)
    IN  IF ~a.ok THEN Rejected("getLocation", token, 0, NoBody)
        ELSE /\ LET user == CHOOSE u \in FindUserById(a.user._id) : TRUE
                IN  IF FalsyNumber(user.location.latitude)
                    THEN last' = Exchange("getLocation", token, 0, NoBody, 404,
                                          Error("No location data found"), TRUE)
                    ELSE last' = Exchange("getLocation", token, 0, NoBody, 200,
                                          user.location, TRUE)
             /\ UNCHANGED <<users, chats, nextChatId, pending, now, registered>>

\* DELETE /api/user/location
DeleteLocation(token) ==
    LET a == authMiddleware(token)
    IN  IF ~a.ok THEN Rejected("deleteLocation", token, 0, NoBody)
        ELSE /\ users' = [users EXCEPT ![a.user._id].location = NoLocation]
             /\ last' = Exchange("deleteLocation", token, 0, NoBody, 200,
                                 [message |-> "Location data deleted successfully"], TRUE)
             /\ UNCHANGED <<chats, nextChatId, pending, now, registered>>

-----------------------------------------------------------------------------
(* Request inputs.                                                         *)

\* a header that is not a token; tokens with a wrong signature or past expiry
GarbageToken == [form |-> "garbage", userId |-> 0, signed |-> FALSE, expired |-> FALSE]
ForgedToken(userId) == [jwtSign(userId) EXCEPT !.signed = FALSE]
ExpiredToken(userId) == [jwtSign(userId) EXCEPT !.expired = TRUE]

RegisterBody(name, email, password) == [name |-> name, email |-> email, password |-> password]
LoginBody(email, password) == [email |-> email, password |-> password]
LocationBody(latitude, longitude, address) ==
    [latitude |-> latitude, longitude |-> longitude, address |-> address]

\* the requests the specifications send
Owner == jwtSign(1)
Other == jwtSign(2)
AnnRegisters == RegisterBody("Ann", "ann@x.io", PwSecret)
AnnRegistersShort == RegisterBody("Ann", "ann@x.io", PwShort)
EveRegisters == RegisterBody("Eve", "ann@x.io", PwHunter)
BobRegisters == RegisterBody("Bob", "bob@x.io", PwHunter)
BobRegistersShort == RegisterBody("Bob", "bob@x.io", PwShort)
AnnLogsIn == LoginBody("ann@x.io", PwSecret)
AnnLogsInWrong == LoginBody("ann@x.io", PwHunter)
BobLogsIn == LoginBody("bob@x.io", PwHunter)
ProfileBody == [name |-> "Anna", preferredLanguage |-> "bn"]
LocationHere == LocationBody({5}, {7}, {})
TextHi == Text(MsgHi)
TextTrip == Text(TitleTrip)
Salts == {65, 66}
ChatIds == {BadObjectId, 1, 2}

\* bounding guards of the specifications
ChatsBelow(n) == nextChatId <= n
PendingBelow(n) == Len(pending) < n
TurnsBelow(chatId, n) == chatId \in DOMAIN chats => Len(chats[chatId].messages) < 2 * n

\* a store with two registered users, as two registrations leave it
SeededUsers ==
    << NewUser(1, "Ann", "ann@x.io", bcryptHash(PwSecret, 65), 0),
       NewUser(2, "Bob", "bob@x.io", bcryptHash(PwHunter, 66), 0) >>

InitSeeded ==
    /\ users = SeededUsers
    /\ chats = <<>>
    /\ nextChatId = 1
    /\ pending = <<>>
    /\ last = Exchange("health", NoToken, 0, NoBody, 200, [message |-> "Server is running!"], TRUE)
    /\ now = 0
    /\ registered = {[email |-> "ann@x.io", password |-> PwSecret, id |-> 1],
                     [email |-> "bob@x.io", password |-> PwHunter, id |-> 2]}

-----------------------------------------------------------------------------
(* Spec: every route, from the empty store, one user.                      *)

MaxChats == 1
MaxTurns == 1
MaxPending == 1

Tokens == {NoToken, GarbageToken, ForgedToken(1), ExpiredToken(1), Owner, Other}
RegisterBodies == {AnnRegisters, AnnRegistersShort}
LoginBodies == {AnnLogsIn, AnnLogsInWrong}

Next ==
    \/ \E body \in RegisterBodies : PendingBelow(MaxPending) /\ Register(body)
    \/ \E i \in 1..MaxPending, salt \in Salts : RegisterSave(i, salt)
    \/ \E body \in LoginBodies : Login(body)
    \/ Health
    \/ \E token \in Tokens : ListChats(token)
    \/ \E token \in Tokens : ChatsBelow(MaxChats) /\ CreateChat(token)
    \/ \E token \in Tokens : GetChat(token, 1)
    \/ \E token \in Tokens :
           PendingBelow(MaxPending) /\ TurnsBelow(1, MaxTurns) /\ PostMessage(token, 1, TextHi)
    \/ \E i \in 1..MaxPending : PostMessageSave(i)
    \/ \E token \in Tokens : UpdateTitle(token, 1, TextTrip)
    \/ \E token \in Tokens : DeleteChat(token, 1)
    \/ \E token \in Tokens : GetProfile(token)
    \/ \E token \in Tokens : UpdateProfile(token, ProfileBody)
    \/ \E token \in Tokens : SetLocation(token, LocationHere)
    \/ \E token \in Tokens : GetLocation(token)
    \/ \E token \in Tokens : DeleteLocation(token)

Spec == Init /\ [][Next]_vars

-----------------------------------------------------------------------------
(* SpecAccount: registration and login among the requests that write the   *)
(* users collection, from the empty store, two emails.                     *)

AccountMaxPending == 2
AccountMaxChats == 1

AccountTokens == {Owner, Other}
AccountRegisterBodies == {AnnRegisters, EveRegisters, BobRegisters, BobRegistersShort}
AccountLoginBodies == {AnnLogsIn, AnnLogsInWrong, BobLogsIn}

AccountNext ==
    \/ \E body \in AccountRegisterBodies :
           PendingBelow(AccountMaxPending) /\ Register(body)
    \/ \E i \in 1..AccountMaxPending, salt \in Salts : RegisterSave(i, salt)
    \/ \E body \in AccountLoginBodies : Login(body)
    \/ \E token \in AccountTokens :
           UpdateProfile(token, ProfileBody)
    \/ \E token \in AccountTokens : SetLocation(token, LocationHere)
    \/ \E token \in AccountTokens : DeleteLocation(token)
    \/ ChatsBelow(AccountMaxChats) /\ CreateChat(Owner)
    \/ DeleteChat(Owner, 1)

SpecAccount == Init /\ [][AccountNext]_vars

-----------------------------------------------------------------------------
(* SpecLocation: the location routes of two registered users, with time.   *)

MaxTime == 2

LocationTokens == {NoToken, Owner, Other}
LocationBodies ==
    {LocationHere, LocationBody({5}, {7}, {AddrHome}),
     LocationBody({0 - 3}, {12}, {<<>>}), LocationBody({0}, {7}, {}),
     LocationBody({5}, {0}, {}), LocationBody({}, {7}, {}), LocationBody({5}, {}, {AddrHome})}

LocationNext ==
    \/ \E token \in LocationTokens, body \in LocationBodies :
           SetLocation(token, body)
    \/ \E token \in LocationTokens : GetLocation(token)
    \/ \E token \in LocationTokens : DeleteLocation(token)
    \/ now < MaxTime /\ Tick

SpecLocation == InitSeeded /\ [][LocationNext]_vars

-----------------------------------------------------------------------------
(* SpecChat: the routes on one chat, called by its owner and by another    *)
(* user, with overlapping post-message requests.                           *)

\* the chat POST /api/chats by user 1 creates, and the store after it and two
\* registrations
FirstChat == NewChat(1, 1, 0)

InitOneChat ==
    /\ users = SeededUsers
    /\ chats = (1 :> FirstChat)
    /\ nextChatId = 2
    /\ pending = <<>>
    /\ last = Exchange("createChat", Owner, 0, NoBody, 201, FirstChat, TRUE)
    /\ now = 0
    /\ registered = {[email |-> "ann@x.io", password |-> PwSecret, id |-> 1],
                     [email |-> "bob@x.io", password |-> PwHunter, id |-> 2]}

ChatMaxTurns == 2
ChatMaxPending == 2

ChatTokens == {Owner, Other}
ChatMessages == {TextHi, Text(MsgLong), Text(MsgBlank), Number(5)}
ChatTitles == {TextTrip, Text(TitleBlank), Number(5)}

ChatNext ==
    \/ \E token \in ChatTokens : ListChats(token)
    \/ \E token \in ChatTokens : GetChat(token, 1)
    \/ \E token \in ChatTokens, message \in ChatMessages :
           /\ PendingBelow(ChatMaxPending)
           /\ TurnsBelow(1, ChatMaxTurns)
           /\ PostMessage(token, 1, message)
    \/ \E i \in 1..ChatMaxPending : PostMessageSave(i)
    \/ \E token \in ChatTokens, title \in ChatTitles : UpdateTitle(token, 1, title)
    \/ \E token \in ChatTokens : DeleteChat(token, 1)

SpecChat == InitOneChat /\ [][ChatNext]_vars

-----------------------------------------------------------------------------
(* SpecMessage: post-message requests on one chat, one at a time, over     *)
(* messages that exercise every rule of generateAIResponse and             *)
(* detectLanguage.                                                         *)

MessageMaxTurns == 1

TestMessages ==
    {Text(s) : s \in
        {MsgCheesecake, MsgDessertDeal, MsgOfferFood, MsgGreat, MsgDiscount, MsgRestaurant,
         MsgHello, MsgArabic, MsgChinese, MsgBengali, MsgArabicBengali, MsgChineseArabic,
         MsgChineseBengali, MsgLong, MsgFifty, MsgBlank, MsgPadded, MsgHi, <<>>}}
        \cup {Number(0), Number(5)}

MessageNext ==
    \/ \E chatId \in ChatIds, message \in TestMessages :
           /\ pending = <<>>
           /\ TurnsBelow(chatId, MessageMaxTurns)
           /\ PostMessage(Owner, chatId, message)
    \/ PostMessageSave(1)
    \/ \E chatId \in ChatIds : GetChat(Owner, chatId)
    \/ \E chatId \in ChatIds : DeleteChat(Owner, chatId)

SpecMessage == InitOneChat /\ [][MessageNext]_vars

-----------------------------------------------------------------------------
(* Properties.                                                             *)

\* the step answered a request of a caller the middleware lets through
Authenticated(token) == authMiddleware(token).ok

\* the stored chat a post-message response refers to, if it is still stored
AnsweredPost == last.route = "postMessage" /\ last.status = 200

\* s matches the lower-case keyword kw at some position, whatever its case
MatchesIgnoringCase(s, kw) ==
    \E i \in 0..(Len(s) - Len(kw)) : \A j \in 1..Len(kw) : LowerUnit(s[i + j]) = kw[j]

MatchesAny(s, kws) == \E kw \in kws : MatchesIgnoringCase(s, kw)

\* the keywords of the three rules of generateAIResponse
BakeryKeywords == {KwCheesecake, KwDessert}
DealsKeywords == {KwDeal, KwOffer, KwDiscount}
RestaurantKeywords == {KwRestaurant, KwFood, KwEat}

\* the names of a recommendation list
Names(recommendations) == [i \in DOMAIN recommendations |-> recommendations[i].name]

\* C9: the response to a posted message follows the first of the rules, in the
\* order bakery (cheesecake, dessert), deals (deal, offer, discount),
\* restaurants (restaurant, food, eat), help, that matches the message without
\* regard to case: bakery gives 2 recommendations and a text naming Sweet Dreams
\* Bakery, deals gives 3, restaurants gives 2, help gives none; the response
\* carries that list and the assistant message that text.
C9_RuleOrder ==
    AnsweredPost =>
        LET m == last.input.message.text
            recs == last.body.recommendations
            text == last.body.assistantMessage.content
        IN  /\ last.body.assistantMessage.role = "assistant"
            /\ IF MatchesAny(m, BakeryKeywords)
               THEN /\ Names(recs) = <<"Sweet Dreams Bakery", "Cafe Delight">>
                    /\ includes(text, SweetDreamsBakery)
                    /\ text = BakeryContent
               ELSE IF MatchesAny(m, DealsKeywords)
               THEN /\ Names(recs) = <<"TechStore", "Fashion Hub", "FoodApp">>
                    /\ text = DealsContent
               ELSE IF MatchesAny(m, RestaurantKeywords)
               THEN /\ Names(recs) = <<"Pizza Palace", "Sushi Zen">>
                    /\ text = RestaurantContent
               ELSE /\ recs = <<>>
                    /\ text = HelpContent
            /\ last.chatId \in DOMAIN chats =>
                   \E i \in DOMAIN chats[last.chatId].messages :
                       chats[last.chatId].messages[i] = last.body.assistantMessage

\* a message matching a bakery keyword in capitals and a deals keyword was
\* answered with the two bakery recommendations
C9_Witness ==
    /\ AnsweredPost
    /\ last.input.message.text = MsgDessertDeal
    /\ Len(last.body.recommendations) = 2
    /\ last.body.assistantMessage.content = BakeryContent

\* C10: both messages of a post-message response carry the language of the
\* posted text: "bn" if it has a unit in U+0980..U+09FF, else "ar" if it has one
\* in U+0600..U+06FF, else "zh" if it has one in U+4E00..U+9FFF, else "en".
C10_LanguagePriority ==
    AnsweredPost =>
        LET m == last.input.message.text
            has(lo, hi) == \E i \in 1..Len(m) : m[i] \in lo..hi
            expected == IF has(2432, 2559) THEN "bn"
                        ELSE IF has(1536, 1791) THEN "ar"
                        ELSE IF has(19968, 40959) THEN "zh"
                        ELSE "en"
        IN  /\ last.body.userMessage.language = expected
            /\ last.body.assistantMessage.language = expected
            /\ last.body.userMessage.role = "user"

\* a text with an Arabic letter in front of a Bengali letter was tagged "bn"
C10_Witness ==
    /\ AnsweredPost
    /\ last.input.message.text = MsgArabicBengali
    /\ last.body.userMessage.language = "bn"
    /\ last.body.assistantMessage.language = "bn"

\* the step handled a chat request of a stored user on a stored chat that
\* another user owns
ForeignRequest(c) ==
    /\ last'.route \in {"getChat", "postMessage", "updateTitle", "deleteChat"}
    /\ last'.chatId = c
    /\ Authenticated(last'.token)
    /\ chats[c].userId # last'.token.userId

\* the text a post-message or update-title request carries
RequestText(exchange) ==
    IF exchange.route = "postMessage" THEN exchange.input.message ELSE exchange.input.title

\* the status the validation of the route answers before the chat is looked
\* up: 400 for a missing or blank text, 500 for a text that is not a string,
\* and 0 when the body passes
ValidationStatus(exchange) ==
    IF exchange.route \notin {"postMessage", "updateTitle"} THEN 0
    ELSE IF Falsy(RequestText(exchange)) THEN 400
    ELSE IF RequestText(exchange).type # "string" THEN 500
    ELSE IF trim(RequestText(exchange).text) = <<>> THEN 400
    ELSE 0

\* C1 as stated: get, post message, update title and delete by an authenticated
\* user on a chat of another user answer 404 with an error-only body and leave
\* the chats as they were.
C1_AlwaysNotFound ==
    [][\A c \in DOMAIN chats :
          ForeignRequest(c) =>
              /\ last'.status = 404
              /\ DOMAIN last'.body = {"error"}
              /\ chats' = chats]_vars

\* C1 amended: such a request answers 404 when its body passes the validation
\* of its route; a post-message or update-title request answers 400 when its
\* text is missing or blank and 500 when its text is not a string.  In every
\* case the body is error-only and the chats stay as they were.
C1_OwnershipIsolation ==
    [][\A c \in DOMAIN chats :
          ForeignRequest(c) =>
              /\ last'.status = (IF ValidationStatus(last') = 0 THEN 404
                                 ELSE ValidationStatus(last'))
              /\ DOMAIN last'.body = {"error"}
              /\ chats' = chats]_vars

\* a delete by the other user was answered 404 and the chat, with messages, is
\* still stored
C1_Witness ==
    /\ last.route = "deleteChat"
    /\ last.status = 404
    /\ last.chatId \in DOMAIN chats
    /\ chats[last.chatId].userId # last.token.userId
    /\ Authenticated(last.token)
    /\ Len(chats[last.chatId].messages) >= 2

\* C2: a step that appends to a stored chat sets the title of an empty chat
\* titled "New Chat" to the first 50 units of the posted message, plus "..." if
\* the message is longer, and leaves the title of a chat that already had
\* messages unchanged.
C2_TitleDerivation ==
    [][\A c \in DOMAIN chats \cap DOMAIN chats' :
          Len(chats'[c].messages) > Len(chats[c].messages) =>
              IF Len(chats[c].messages) = 0
              THEN chats[c].title = NewChatTitle =>
                       LET m == last'.input.message.text
                       IN  chats'[c].title =
                               SubSeq(m, 1, Min(50, Len(m)))
                                   \o (IF Len(m) > 50 THEN Ellipsis ELSE <<>>)
              ELSE chats'[c].title = chats[c].title]_vars

\* the messages of every stored chat alternate user, assistant from a user message
PairedMessages ==
    \A c \in DOMAIN chats :
        LET m == chats[c].messages
        IN  /\ Len(m) % 2 = 0
            /\ \A i \in 1..Len(m) : m[i].role = IF i % 2 = 1 THEN "user" ELSE "assistant"

\* a step leaves the messages of a chat alone or appends the user message and
\* the assistant message of the request it answers, and every answered
\* post-message request has appended
AppendsOnePair ==
    /\ \A c \in DOMAIN chats \cap DOMAIN chats' :
           LET m == chats[c].messages
               n == chats'[c].messages
           IN  \/ n = m
               \/ /\ last'.route = "postMessage" /\ last'.status = 200 /\ last'.chatId = c
                  /\ n = m \o <<last'.body.userMessage, last'.body.assistantMessage>>
                  /\ last'.body.userMessage.role = "user"
                  /\ last'.body.userMessage.content = trim(last'.input.message.text)
                  /\ last'.body.assistantMessage.role = "assistant"
    /\ (last'.route = "postMessage" /\ last'.status = 200) =>
           /\ last'.chatId \in DOMAIN chats \cap DOMAIN chats'
           /\ Len(chats'[last'.chatId].messages) = Len(chats[last'.chatId].messages) + 2

\* C5: stored message lists are paired in every state, and every step only
\* appends one user, assistant pair to them, under every interleaving.
C5_MessagePairing == []PairedMessages /\ [][AppendsOnePair]_vars

\* two overlapping requests with different messages have both been saved
C5_Witness ==
    \E c \in DOMAIN chats :
        /\ Len(chats[c].messages) = 4
        /\ chats[c].messages[1].content # chats[c].messages[3].content
        /\ chats[c].title # DeriveTitle(chats[c].messages[1].content)
        /\ last.route = "postMessage" /\ last.status = 200

\* C3: each registration answered 201 leaves credentials with which a login
\* answers 200 and a verifiable token naming the created user, in every later
\* state; and a login the latest step answered did so.
C3_RegisterThenLogin ==
    \A r \in registered :
        LET response == LoginResponse(LoginBody(r.email, r.password))
        IN  /\ response.status = 200
            /\ response.body.token.userId = r.id
            /\ jwtVerify(response.body.token)
            /\ (last.route = "login" /\ last.input = LoginBody(r.email, r.password)) =>
                   (last.status = 200 /\ last.body.token.userId = r.id)

\* the second registered user logged in after a profile update
C3_Witness ==
    /\ last.route = "login"
    /\ last.status = 200
    /\ last.body.token.userId = 2
    /\ Len(users) = 2
    /\ \E i \in 1..Len(users) : users[i].name = "Anna" /\ users[i].location # NoLocation
    /\ \E r \in registered : last.input = LoginBody(r.email, r.password)

\* C4: a register request answered while a stored user holds its email is
\* answered 400 and stores no user.
C4_DuplicateRegistration ==
    [][(last'.route = "register" /\ last'.status # 0
            /\ FindUsersByEmail(last'.input.email) # {}) =>
          (last'.status = 400 /\ users' = users)]_vars

\* the token of the request does not pass the gate in the state it arrives in
InvalidToken(token) ==
    \/ token.form # "jwt"
    \/ ~token.signed
    \/ token.expired
    \/ token.userId \notin 1..Len(users)

ProtectedRoutes ==
    {"listChats", "createChat", "getChat", "postMessage", "updateTitle", "deleteChat",
     "getProfile", "updateProfile", "setLocation", "getLocation", "deleteLocation"}

\* C6: a request to a protected route without a token, or with a token that is
\* malformed, wrongly signed, expired or names no stored user, is answered 401
\* without the handler running, and users and chats stay as they were.
C6_AuthGate ==
    [][(last'.route \in ProtectedRoutes /\ InvalidToken(last'.token)) =>
          /\ last'.status = 401
          /\ ~last'.ran
          /\ users' = users
          /\ chats' = chats]_vars

\* a delete with a well signed token of a user that is not stored was refused
\* while a user and a chat are stored
C6_Witness ==
    /\ last.route = "deleteChat"
    /\ last.token = Other
    /\ last.status = 401
    /\ Len(users) = 1
    /\ 1 \in DOMAIN chats

\* the objects a response body holds
BodyObjects(exchange) ==
    IF exchange.route = "listChats" /\ exchange.status = 200
    THEN {exchange.body[i] : i \in DOMAIN exchange.body}
    ELSE {exchange.body}
         \cup (IF "user" \in DOMAIN exchange.body THEN {exchange.body.user} ELSE {})
         \cup (IF "chat" \in DOMAIN exchange.body THEN {exchange.body.chat} ELSE {})
         \cup (IF "location" \in DOMAIN exchange.body THEN {exchange.body.location} ELSE {})

\* C7: no object of a response body has a password field, and the password
\* stored for a registered user differs from the plaintext of its registration.
C7_PasswordConfidentiality ==
    /\ \A object \in BodyObjects(last) : "password" \notin DOMAIN object
    /\ \A r \in registered : users[r.id].password # r.password

\* a profile update, which returns the updated document, was answered
C7_Witness ==
    /\ last.route = "updateProfile"
    /\ last.status = 200
    /\ "email" \in DOMAIN last.body
    /\ registered # {}

\* C8: a set-location request with a latitude and a longitude is answered 200
\* and stores them, the given address or "lat, lon", and the time; one without
\* either is answered 400 and stores nothing; get location answers 404 exactly
\* when no latitude is stored, and the stored location otherwise.
C8_SetLocation ==
    [][(now' = now /\ Authenticated(last'.token)) =>
          LET id == last'.token.userId
              body == last'.input
          IN  /\ last'.route = "setLocation" =>
                     IF body.latitude # {} /\ body.longitude # {}
                     THEN /\ last'.status = 200
                          /\ users'[id].location.latitude = body.latitude
                          /\ users'[id].location.longitude = body.longitude
                          /\ users'[id].location.lastUpdated = {now}
                          /\ users'[id].location.address # {}
                          /\ last'.body.location = users'[id].location
                     ELSE last'.status = 400 /\ users' = users
              /\ last'.route = "getLocation" =>
                     IF users[id].location.latitude = {}
                     THEN last'.status = 404
                     ELSE last'.status = 200 /\ last'.body = users[id].location
              /\ last'.route = "deleteLocation" => users'[id].location.latitude = {}]_vars

=============================================================================
